---- MODULE Spec2Model ----
(***************************************************************************)
(* CPU scheduling simulator: Process records (process.py) and the five     *)
(* scheduling policies of scheduler.py (FCFS, SJF, SRTF, Round-Robin,      *)
(* Priority).  Process objects live in a heap and are handled through      *)
(* references, as in the Python source, so that copying and aliasing are   *)
(* visible.  Every loop iteration of a schedule() method is split at the   *)
(* points where the running process is observable.                         *)
(***************************************************************************)
EXTENDS Integers, Sequences, FiniteSets, TLC

\* ------------------------------------------------------------------ bounds
MaxProcs == 3
MaxArrival == 2
MaxBurst == 3
MaxPriority == 2
MaxQuantum == 2
CallerProcs == 2      \* list length, arrival and burst bounds of the caller
CallerArrival == 1    \* scenarios (several schedulers over one list)
CallerBurst == 2
MaxRuns == 3          \* schedulers a caller builds over one list
PermProcs == 3        \* inputs of the runs repeated with the list reordered
PermArrival == 1
PermBurst == 3

VARIABLES
    heap,                 \* object store: reference -> Process record
    input,                \* the caller's list of Process references
    policy,               \* which CPUScheduler subclass the caller uses
    time_quantum,         \* RoundRobinScheduler.time_quantum
    pc,                   \* position of the caller / of schedule()
    processes,            \* self.processes
    current_time,         \* self.current_time (SRTF: also the loop variable time)
    gantt_chart,          \* self.gantt_chart
    completed_processes,  \* self.completed_processes
    ready_queue,          \* local ready_queue
    remaining_processes,  \* local remaining_processes
    process,              \* local process of the FCFS/SJF/RR/Priority loops (0 = none)
    current_process,      \* local current_process of SRTF (0 = None)
    idx,                  \* FCFS: position of the for loop in self.processes
    max_time,             \* SRTF: loop bound
    result,               \* what schedule() returned
    history,              \* the caller's record of the runs it made before this one
    call                  \* the caller's last direct method call: <<>> or <<record>>

vars == <<heap, input, policy, time_quantum, pc, processes, current_time,
          gantt_chart, completed_processes, ready_queue, remaining_processes,
          process, current_process, idx, max_time, result, history, call>>

\* ------------------------------------------------------------ process.py
StateNEW == "NEW"
StateREADY == "READY"
StateRUNNING == "RUNNING"
StateWAITING == "WAITING"
StateTERMINATED == "TERMINATED"

ProcessState == {StateNEW, StateREADY, StateRUNNING, StateWAITING, StateTERMINATED}

NewProcess(pid, arrival_time, burst_time, priority) ==
    [pid |-> pid, arrival_time |-> arrival_time, burst_time |-> burst_time,
     priority |-> priority, state |-> StateNEW, remaining_time |-> burst_time,
     completion_time |-> 0, turnaround_time |-> 0, waiting_time |-> 0,
     response_time |-> -1, start_time |-> -1]

\* Faulty variant: the first argument, whatever the second.
Min_First(a, b) == a

Min(a, b) == IF a <= b THEN a ELSE b

\* Process.execute: the record after executing, and the value returned.
Executed(p, time_slice) ==
    IF p.state # StateRUNNING THEN 0 ELSE Min(time_slice, p.remaining_time)

\* Faulty variant: the state is left as it is when the burst is used up.
Execute_KeepsRunning(p, time_slice) ==
    IF p.state # StateRUNNING THEN p
    ELSE [p EXCEPT !.remaining_time = @ - Min(time_slice, p.remaining_time)]

\* Faulty variant: no check of the state.
Execute_AnyState(p, time_slice) ==
    LET left == p.remaining_time - Min(time_slice, p.remaining_time)
    IN [p EXCEPT !.remaining_time = left,
                 !.state = IF left = 0 THEN StateTERMINATED ELSE p.state]

Execute(p, time_slice) ==
    IF p.state # StateRUNNING THEN p
    ELSE LET left == p.remaining_time - Min(time_slice, p.remaining_time)
         IN [p EXCEPT !.remaining_time = left,
                      !.state = IF left = 0 THEN StateTERMINATED ELSE p.state]

is_complete(p) == p.remaining_time = 0

get_statistics(p) ==
    [pid |-> p.pid, arrival_time |-> p.arrival_time, burst_time |-> p.burst_time,
     priority |-> p.priority, completion_time |-> p.completion_time,
     turnaround_time |-> p.turnaround_time, waiting_time |-> p.waiting_time,
     response_time |-> p.response_time]

\* ---------------------------------------------------------- scheduler.py
FCFS == "FCFS"
SJF == "SJF"
SRTF == "SRTF"
RR == "RR"
PRIORITY == "PRIORITY"

Policies == {FCFS, SJF, SRTF, RR, PRIORITY}

\* Gantt labels: f"P{pid}" and "IDLE".
Label(pid) == <<"P", pid>>
IDLE == <<"IDLE", 0>>

\* Faulty variant: the interval's end is the run length, not start + length.
Interval_EndIsLength(start, length, label) == <<start, length, label>>

\* (self.current_time, self.current_time + execution_time, label)
Interval(start, length, label) == <<start, start + length, label>>

\* Faulty variant: a dispatch runs a single time unit.
RunLength_OneUnit(p) == 1

\* FCFS/SJF/Priority: "execution_time = process.burst_time"
RunLength(p) == p.burst_time

\* Faulty variant: the run is taken to end burst_time after the arrival.
RunEnd_FromArrival(t, p) == p.arrival_time + RunLength(p)

\* "self.current_time += execution_time" of FCFS/SJF/Priority.
RunEnd(t, p) == t + RunLength(p)

\* Python compares key tuples lexicographically.
LexLess(a, b) ==
    \E i \in 1..Len(a) : a[i] < b[i] /\ \A j \in 1..(i - 1) : a[j] = b[j]

\* list.sort(key=...) / sorted: stable, ascending by key; keys[i] is the key
\* of refs[i].
StableSort(refs, keys) ==
    LET n == Len(refs)
        Before(i, j) == LexLess(keys[i], keys[j]) \/ (keys[i] = keys[j] /\ i < j)
        rank(i) == Cardinality({j \in 1..n : Before(j, i)}) + 1
    IN [k \in 1..n |-> refs[CHOOSE i \in 1..n : rank(i) = k]]

\* Faulty variants of the sort keys: by pid alone; no pid tie-break; arrival
\* before burst; higher priority number first.
ArrivalKey_PidOnly(p) == <<p.pid>>
ArrivalKey_NoPid(p) == <<p.arrival_time>>
BurstKey_ArrivalFirst(p) == <<p.arrival_time, p.burst_time, p.pid>>
PriorityKey_Reversed(p) == <<0 - p.priority, p.arrival_time, p.pid>>

\* The sort keys (the lambdas of scheduler.py).
ArrivalKey(p) == <<p.arrival_time, p.pid>>
BurstKey(p) == <<p.burst_time, p.arrival_time, p.pid>>
RemainingKey(p) == <<p.remaining_time, p.arrival_time, p.pid>>
PriorityKey(p) == <<p.priority, p.arrival_time, p.pid>>

\* The key functions applied to a list of references.
ArrivalKeys(refs, h) == [i \in DOMAIN refs |-> ArrivalKey(h[refs[i]])]
BurstKeys(refs, h) == [i \in DOMAIN refs |-> BurstKey(h[refs[i]])]
RemainingKeys(refs, h) == [i \in DOMAIN refs |-> RemainingKey(h[refs[i]])]
PriorityKeys(refs, h) == [i \in DOMAIN refs |-> PriorityKey(h[refs[i]])]

\* "ready_queue.sort(key=...)" of SJF (burst) and of Priority (priority).
SortReady(pol, rq, h) ==
    IF pol = SJF THEN StableSort(rq, BurstKeys(rq, h))
    ELSE StableSort(rq, PriorityKeys(rq, h))

\* Faulty variant: the scheduler keeps the caller's objects (no copy).
CopyRefs_Alias(refs, h) == refs

\* copy.deepcopy of every element: fresh objects appended to the heap.
CopyRefs(refs, h) == [i \in 1..Len(refs) |-> Len(h) + i]

CopyHeap(refs, h) == h \o [i \in 1..Len(refs) |-> h[refs[i]]]

\* Faulty variant: every remaining process is admitted, arrived or not.
ArrivedCount_All(rem, h, t) == Len(rem)

\* "while remaining_processes and remaining_processes[0].arrival_time <= t: pop(0)":
\* the number of processes popped from the front.
ArrivedCount(rem, h, t) ==
    LET ks == {k \in 0..Len(rem) : \A i \in 1..k : h[rem[i]].arrival_time <= t}
    IN CHOOSE k \in ks : \A m \in ks : m <= k

Arrived(rem, h, t) == SubSeq(rem, 1, ArrivedCount(rem, h, t))

NotArrived(rem, h, t) == SubSeq(rem, ArrivedCount(rem, h, t) + 1, Len(rem))

Range(s) == {s[i] : i \in DOMAIN s}

\* process.state = StateREADY for every popped process.
MarkReady(h, refs) ==
    [r \in DOMAIN h |-> IF r \in Range(refs) THEN [h[r] EXCEPT !.state = StateREADY] ELSE h[r]]

\* First dispatch (FCFS/SJF/Priority: every dispatch): state, start_time, response_time.
Dispatched(p, t) ==
    [p EXCEPT !.state = StateRUNNING, !.start_time = t, !.response_time = t - p.arrival_time]

\* Faulty variant: every dispatch records start_time and response_time anew.
DispatchedOnce_Always(p, t) ==
    [p EXCEPT !.state = StateRUNNING, !.start_time = t, !.response_time = t - p.arrival_time]

\* Re-dispatch guarded by "if start_time == -1" (SRTF, Round-Robin).
DispatchedOnce(p, t) ==
    IF p.start_time = -1 THEN Dispatched(p, t) ELSE [p EXCEPT !.state = StateRUNNING]

\* Faulty variant: turnaround measured from the first dispatch, not from arrival.
Finalized_FromStart(p, t) ==
    [p EXCEPT !.completion_time = t,
              !.turnaround_time = t - p.start_time,
              !.waiting_time = (t - p.start_time) - p.burst_time]

\* Faulty variant: the waiting time is the time until the first dispatch.
Finalized_WaitingIsResponse(p, t) ==
    [p EXCEPT !.completion_time = t,
              !.turnaround_time = t - p.arrival_time,
              !.waiting_time = p.response_time]

\* completion_time, turnaround_time, waiting_time at completion.
Finalized(p, t) ==
    [p EXCEPT !.completion_time = t,
              !.turnaround_time = t - p.arrival_time,
              !.waiting_time = (t - p.arrival_time) - p.burst_time]

\* Faulty variant: remaining_time is not reset.
Terminated_KeepsRemaining(p, t) ==
    [Finalized(p, t) EXCEPT !.state = StateTERMINATED]

\* FCFS/SJF/Priority additionally force state and remaining_time.
Terminated(p, t) ==
    [Finalized(p, t) EXCEPT !.state = StateTERMINATED, !.remaining_time = 0]

\* sum(... for p in self.completed_processes) over one statistic.
RECURSIVE SumOf(_, _, _)
SumOf(h, completed, field) ==
    IF completed = <<>> THEN 0
    ELSE h[Head(completed)][field] + SumOf(h, Tail(completed), field)

\* Faulty variant: the average is cut off after two decimals.
Round2_Truncate(total, n) == (100 * total) \div n

\* round(total / n, 2), kept as an integer number of hundredths.  total >= 0 and
\* n > 0 here; 100 * total / n lies exactly half-way between two hundredths only
\* when 8 divides n, so below eight processes round() is "to nearest".
Round2(total, n) == (200 * total + n) \div (2 * n)

\* The dict returned for n == 0.
EmptyMetrics == [n \in {} |-> 0]

\* Faulty variant: zeros instead of the empty dict when nothing has completed.
calculate_metrics_Zeros(h, completed) ==
    LET n == Len(completed)
        avg(field) == IF n = 0 THEN 0 ELSE Round2(SumOf(h, completed, field), n)
    IN [avg_turnaround_time |-> avg("turnaround_time"),
        avg_waiting_time |-> avg("waiting_time"),
        avg_response_time |-> avg("response_time"),
        total_processes |-> n]

\* CPUScheduler.calculate_metrics.
calculate_metrics(h, completed) ==
    LET n == Len(completed)
    IN IF n = 0 THEN EmptyMetrics
       ELSE [avg_turnaround_time |-> Round2(SumOf(h, completed, "turnaround_time"), n),
             avg_waiting_time |-> Round2(SumOf(h, completed, "waiting_time"), n),
             avg_response_time |-> Round2(SumOf(h, completed, "response_time"), n),
             total_processes |-> n]

\* Faulty variant: the statistics of self.processes, in that list's order.
get_results_AllProcesses(h, completed, gantt) ==
    [stats |-> [i \in 1..Len(processes) |-> get_statistics(h[processes[i]])],
     metrics |-> calculate_metrics(h, completed),
     gantt |-> gantt]

\* CPUScheduler.get_results.
get_results(h, completed, gantt) ==
    [stats |-> [i \in 1..Len(completed) |-> get_statistics(h[completed[i]])],
     metrics |-> calculate_metrics(h, completed),
     gantt |-> gantt]

NoResult == [stats |-> <<>>, metrics |-> EmptyMetrics, gantt |-> <<>>]

\* ------------------------------------------------------------------ Init
\* The orders in which the caller lists the pids 1..n: ascending and descending
\* (every pair of processes appears in both relative orders).
ListOrders(n) == {[i \in 1..n |-> i], [i \in 1..n |-> n + 1 - i]}

\* No scheduler exists yet and the caller has called nothing.
NoScheduler ==
    /\ pc = "caller"
    /\ processes = <<>>
    /\ current_time = 0
    /\ gantt_chart = <<>>
    /\ completed_processes = <<>>
    /\ ready_queue = <<>>
    /\ remaining_processes = <<>>
    /\ process = 0
    /\ current_process = 0
    /\ idx = 0
    /\ max_time = 0
    /\ result = NoResult
    /\ history = <<>>
    /\ call = <<>>

\* The caller has built a list of fresh Process records (unique pids) and has
\* chosen a policy; callers of policies that ignore priority use its default 0.
Init ==
    /\ policy \in Policies
    /\ time_quantum \in (IF policy = RR THEN 1..MaxQuantum ELSE {2})
    /\ \E n \in 1..MaxProcs :
         \E pid \in ListOrders(n), at \in [1..n -> 0..MaxArrival],
            bt \in [1..n -> 1..MaxBurst],
            pr \in [1..n -> (IF policy = PRIORITY THEN 1..MaxPriority ELSE {0})] :
           /\ heap = [r \in 1..n |-> NewProcess(pid[r], at[r], bt[r], pr[r])]
           /\ input = [r \in 1..n |-> r]
    /\ NoScheduler

\* ------------------------------------------------- CPUScheduler.__init__
Construct ==
    /\ pc = "caller"
    /\ heap' = CopyHeap(input, heap)
    /\ processes' = CopyRefs(input, heap)
    /\ current_time' = 0
    /\ gantt_chart' = <<>>
    /\ completed_processes' = <<>>
    /\ pc' = "constructed"
    /\ UNCHANGED <<history, call,
                   input, policy, time_quantum, ready_queue, remaining_processes,
                   process, current_process, idx, max_time, result>>

\* ------------------------------------------------- FCFSScheduler.schedule
FCFS_Start ==
    /\ pc = "constructed" /\ policy = FCFS
    /\ processes' = StableSort(processes, ArrivalKeys(processes, heap))
    /\ idx' = 1
    /\ pc' = "loop"
    /\ UNCHANGED <<history, call,
                   heap, input, policy, time_quantum, current_time, gantt_chart,
                   completed_processes, ready_queue, remaining_processes, process,
                   current_process, max_time, result>>

\* "if self.current_time < process.arrival_time": the IDLE interval.
FCFS_Idle ==
    /\ pc = "loop" /\ policy = FCFS /\ idx <= Len(processes)
    /\ current_time < heap[processes[idx]].arrival_time
    /\ gantt_chart' = Append(gantt_chart,
                             <<current_time, heap[processes[idx]].arrival_time, IDLE>>)
    /\ current_time' = heap[processes[idx]].arrival_time
    /\ UNCHANGED <<history, call,
                   heap, input, policy, time_quantum, pc, processes,
                   completed_processes, ready_queue, remaining_processes, process,
                   current_process, idx, max_time, result>>

FCFS_Dispatch ==
    /\ pc = "loop" /\ policy = FCFS /\ idx <= Len(processes)
    /\ ~(current_time < heap[processes[idx]].arrival_time)
    /\ LET r == processes[idx] IN
         /\ process' = r
         /\ heap' = [heap EXCEPT ![r] = Dispatched(heap[r], current_time)]
         /\ gantt_chart' = Append(gantt_chart,
                Interval(current_time, RunLength(heap[r]), Label(heap[r].pid)))
         /\ current_time' = RunEnd(current_time, heap[r])
    /\ pc' = "run"
    /\ UNCHANGED <<history, call,
                   input, policy, time_quantum, processes, completed_processes,
                   ready_queue, remaining_processes, current_process, idx, max_time,
                   result>>

FCFS_Complete ==
    /\ pc = "run" /\ policy = FCFS
    /\ heap' = [heap EXCEPT ![process] = Terminated(heap[process], current_time)]
    /\ completed_processes' = Append(completed_processes, process)
    /\ idx' = idx + 1
    /\ pc' = "loop"
    /\ UNCHANGED <<history, call,
                   input, policy, time_quantum, processes, current_time, gantt_chart,
                   ready_queue, remaining_processes, process, current_process,
                   max_time, result>>

FCFS_Return ==
    /\ pc = "loop" /\ policy = FCFS /\ idx > Len(processes)
    /\ result' = get_results(heap, completed_processes, gantt_chart)
    /\ pc' = "done"
    /\ UNCHANGED <<history, call,
                   heap, input, policy, time_quantum, processes, current_time,
                   gantt_chart, completed_processes, ready_queue, remaining_processes,
                   process, current_process, idx, max_time>>

\* ------------------------- SJFScheduler.schedule, PriorityScheduler.schedule
\* The two methods differ only in the key that sorts the ready queue.
NP_Start(pol) ==
    /\ pc = "constructed" /\ policy = pol
    /\ ready_queue' = <<>>
    /\ remaining_processes' = StableSort(processes, ArrivalKeys(processes, heap))
    /\ pc' = "loop"
    /\ UNCHANGED <<history, call,
                   heap, input, policy, time_quantum, processes, current_time,
                   gantt_chart, completed_processes, process, current_process, idx,
                   max_time, result>>

\* "if not ready_queue: ... continue": nothing has arrived, the CPU idles.
NP_Idle(pol) ==
    /\ pc = "loop" /\ policy = pol
    /\ remaining_processes # <<>> \/ ready_queue # <<>>
    /\ ready_queue \o Arrived(remaining_processes, heap, current_time) = <<>>
    /\ IF remaining_processes # <<>>
       THEN LET next_arrival == heap[remaining_processes[1]].arrival_time IN
              /\ gantt_chart' = Append(gantt_chart, <<current_time, next_arrival, IDLE>>)
              /\ current_time' = next_arrival
       ELSE UNCHANGED <<gantt_chart, current_time>>
    /\ UNCHANGED <<history, call,
                   heap, input, policy, time_quantum, pc, processes,
                   completed_processes, ready_queue, remaining_processes, process,
                   current_process, idx, max_time, result>>

\* Admit the arrived processes, sort the ready queue, pop and run its head.
NP_Dispatch(pol) ==
    /\ pc = "loop" /\ policy = pol
    /\ remaining_processes # <<>> \/ ready_queue # <<>>
    /\ LET arrived == Arrived(remaining_processes, heap, current_time)
           h1 == MarkReady(heap, arrived)
           rq == SortReady(pol, ready_queue \o arrived, h1)
       IN /\ rq # <<>>
          /\ remaining_processes' = NotArrived(remaining_processes, heap, current_time)
          /\ ready_queue' = Tail(rq)
          /\ process' = Head(rq)
          /\ heap' = [h1 EXCEPT ![Head(rq)] = Dispatched(h1[Head(rq)], current_time)]
          /\ gantt_chart' = Append(gantt_chart,
                 Interval(current_time, RunLength(h1[Head(rq)]), Label(h1[Head(rq)].pid)))
          /\ current_time' = RunEnd(current_time, h1[Head(rq)])
    /\ pc' = "run"
    /\ UNCHANGED <<history, call,
                   input, policy, time_quantum, processes, completed_processes,
                   current_process, idx, max_time, result>>

NP_Complete(pol) ==
    /\ pc = "run" /\ policy = pol
    /\ heap' = [heap EXCEPT ![process] = Terminated(heap[process], current_time)]
    /\ completed_processes' = Append(completed_processes, process)
    /\ pc' = "loop"
    /\ UNCHANGED <<history, call,
                   input, policy, time_quantum, processes, current_time, gantt_chart,
                   ready_queue, remaining_processes, process, current_process, idx,
                   max_time, result>>

NP_Return(pol) ==
    /\ pc = "loop" /\ policy = pol
    /\ remaining_processes = <<>> /\ ready_queue = <<>>
    /\ result' = get_results(heap, completed_processes, gantt_chart)
    /\ pc' = "done"
    /\ UNCHANGED <<history, call,
                   heap, input, policy, time_quantum, processes, current_time,
                   gantt_chart, completed_processes, ready_queue, remaining_processes,
                   process, current_process, idx, max_time>>

SJF_Start == NP_Start(SJF)
SJF_Idle == NP_Idle(SJF)
SJF_Dispatch == NP_Dispatch(SJF)
SJF_Complete == NP_Complete(SJF)
SJF_Return == NP_Return(SJF)

PRIO_Start == NP_Start(PRIORITY)
PRIO_Idle == NP_Idle(PRIORITY)
PRIO_Dispatch == NP_Dispatch(PRIORITY)
PRIO_Complete == NP_Complete(PRIORITY)
PRIO_Return == NP_Return(PRIORITY)

\* ------------------------------------------- RoundRobinScheduler.schedule
RR_Start == NP_Start(RR)

RR_Idle == NP_Idle(RR)

\* Pop the head of the ready queue and run it for min(quantum, remaining).
RR_Dispatch ==
    /\ pc = "loop" /\ policy = RR
    /\ remaining_processes # <<>> \/ ready_queue # <<>>
    /\ LET arrived == Arrived(remaining_processes, heap, current_time)
           h1 == MarkReady(heap, arrived)
           rq == ready_queue \o arrived
       IN /\ rq # <<>>
          /\ LET r == Head(rq)
                 p == DispatchedOnce(h1[r], current_time)
                 execution_time == Min(time_quantum, p.remaining_time)
             IN /\ remaining_processes' =
                       NotArrived(remaining_processes, heap, current_time)
                /\ ready_queue' = Tail(rq)
                /\ process' = r
                /\ gantt_chart' = Append(gantt_chart,
                       Interval(current_time, execution_time, Label(p.pid)))
                /\ heap' = [h1 EXCEPT ![r] = Execute(p, execution_time)]
                /\ current_time' = current_time + execution_time
    /\ pc' = "run"
    /\ UNCHANGED <<history, call,
                   input, policy, time_quantum, processes, completed_processes,
                   current_process, idx, max_time, result>>

\* After the run: admit the processes that arrived meanwhile, then finalize
\* the process or put it back at the tail of the ready queue.
\* Faulty variant: the preempted process rejoins ahead of the newcomers.
Requeued_IncumbentFirst(rq, arrived, r) == Append(rq, r) \o arrived

\* Faulty variant: the preempted process is appended twice.
Requeued_Twice(rq, arrived, r) == Append(Append(rq \o arrived, r), r)

\* extend by the newcomers (lines 254-257), then "ready_queue.append(process)".
Requeued(rq, arrived, r) == Append(rq \o arrived, r)

RR_After ==
    /\ pc = "run" /\ policy = RR
    /\ LET arrived == Arrived(remaining_processes, heap, current_time)
           h1 == MarkReady(heap, arrived)
           rq == ready_queue \o arrived
       IN /\ remaining_processes' = NotArrived(remaining_processes, heap, current_time)
          /\ IF is_complete(h1[process])
             THEN /\ heap' = [h1 EXCEPT ![process] = Finalized(h1[process], current_time)]
                  /\ completed_processes' = Append(completed_processes, process)
                  /\ ready_queue' = rq
             ELSE /\ heap' = [h1 EXCEPT ![process].state = StateREADY]
                  /\ ready_queue' = Requeued(ready_queue, arrived, process)
                  /\ UNCHANGED completed_processes
    /\ pc' = "loop"
    /\ UNCHANGED <<history, call,
                   input, policy, time_quantum, processes, current_time, gantt_chart,
                   process, current_process, idx, max_time, result>>

RR_Return == NP_Return(RR)

\* -------------------------------------------------- SRTFScheduler.schedule
RECURSIVE SumBurst(_, _)
SumBurst(refs, h) ==
    IF refs = <<>> THEN 0 ELSE h[Head(refs)].burst_time + SumBurst(Tail(refs), h)

MaxArrivalTime(refs, h) ==
    CHOOSE a \in {h[r].arrival_time : r \in Range(refs)} :
        \A r \in Range(refs) : h[r].arrival_time <= a

\* Faulty variant: the bound forgets the latest arrival.
MaxTime_BurstsOnly(refs, h) == SumBurst(refs, h)

\* "max_time = sum(burst_time) + max(arrival_time)"
MaxTime(refs, h) == SumBurst(refs, h) + MaxArrivalTime(refs, h)

\* min(ready_queue, key=(remaining_time, arrival_time, pid))
Shortest(rq, h) == Head(StableSort(rq, RemainingKeys(rq, h)))

\* Faulty variants: the comparison inverted; no preemption at all.
Preempts_Reversed(shortest, running) == shortest.remaining_time > running.remaining_time
Preempts_Never(shortest, running) == FALSE

\* "if shortest.remaining_time < current_process.remaining_time"
Preempts(shortest, running) == shortest.remaining_time < running.remaining_time

\* Faulty variant: a unit with the last interval's label is not recorded.
GanttExtend_Stale(g, time, label) ==
    IF g = <<>> \/ g[Len(g)][3] # label
    THEN Append(g, <<time, time + 1, label>>)
    ELSE g

\* Append [time, time + 1, label], or extend the last interval if it has that label.
GanttExtend(g, time, label) ==
    IF g = <<>> \/ g[Len(g)][3] # label
    THEN Append(g, <<time, time + 1, label>>)
    ELSE [g EXCEPT ![Len(g)][2] = time + 1]

\* The Gantt list an earlier call returned is the very list self.gantt_chart
\* (get_results returns it, line 48): such a history entry is "live" and its
\* content is gantt_chart.  When self.gantt_chart is bound to a new list (line
\* 206, or a new scheduler) the old list keeps the content g it had.
Detached(hist, g) ==
    [k \in DOMAIN hist |->
        IF hist[k].gantt.live
        THEN [hist[k] EXCEPT !.gantt = [live |-> FALSE, value |-> g]]
        ELSE hist[k]]

\* The intervals at the front of self.gantt_chart that are tuples: those an
\* earlier schedule() call on this object left behind (line 206 rebuilds the
\* list out of tuples; the other policies append tuples and never extend).
TupleCount ==
    IF history # <<>> /\ history[Len(history)].reused
    THEN Len(history[Len(history)].result.gantt)
    ELSE 0

\* "self.gantt_chart[-1][1] = time + 1" on a tuple raises TypeError.
ExtendRaises(g, label) ==
    g # <<>> /\ g[Len(g)][3] = label /\ Len(g) <= TupleCount

SRTF_Start ==
    /\ pc = "constructed" /\ policy = SRTF
    /\ ready_queue' = <<>>
    /\ remaining_processes' = StableSort(processes, ArrivalKeys(processes, heap))
    /\ current_process' = 0
    /\ max_time' = MaxTime(processes, heap)
    /\ idx' = 0
    /\ pc' = "loop"
    /\ UNCHANGED <<history, call,
                   heap, input, policy, time_quantum, processes, current_time,
                   gantt_chart, completed_processes, process, result>>

\* One time unit: admit arrivals, finalize or preempt the running process,
\* select the shortest ready process, execute one unit and record it.
SRTF_Tick ==
    /\ pc = "loop" /\ policy = SRTF /\ idx <= max_time
    /\ LET time == idx
           arrived == Arrived(remaining_processes, heap, time)
           h1 == MarkReady(heap, arrived)
           rq1 == ready_queue \o arrived
           cp1 == current_process
           finish == cp1 # 0 /\ is_complete(h1[cp1])
           preempt == /\ cp1 # 0 /\ ~is_complete(h1[cp1]) /\ rq1 # <<>>
                      /\ Preempts(h1[Shortest(rq1, h1)], h1[cp1])
           h2 == IF finish THEN [h1 EXCEPT ![cp1] = Finalized(h1[cp1], time)]
                 ELSE IF preempt THEN [h1 EXCEPT ![cp1].state = StateREADY]
                 ELSE h1
           rq2 == IF preempt THEN Append(rq1, cp1) ELSE rq1
           cp2 == IF finish \/ preempt THEN 0 ELSE cp1
           select == cp2 = 0 /\ rq2 # <<>>
           sorted == StableSort(rq2, RemainingKeys(rq2, h2))
           cp3 == IF select THEN Head(sorted) ELSE cp2
           rq3 == IF select THEN Tail(sorted) ELSE rq2
           h3 == IF select THEN [h2 EXCEPT ![cp3] = DispatchedOnce(h2[cp3], time)]
                 ELSE h2
       IN /\ current_time' = time
          /\ remaining_processes' = NotArrived(remaining_processes, heap, time)
          /\ completed_processes' =
                 IF finish THEN Append(completed_processes, cp1) ELSE completed_processes
          /\ ready_queue' = rq3
          /\ current_process' = cp3
          /\ LET label == IF cp3 # 0 THEN Label(h3[cp3].pid) ELSE IDLE
             IN IF ExtendRaises(gantt_chart, label)
                THEN /\ gantt_chart' = gantt_chart
                     /\ heap' = h3
                     /\ pc' = "raised"
                ELSE /\ gantt_chart' = GanttExtend(gantt_chart, time, label)
                     /\ heap' = IF cp3 # 0
                                THEN [h3 EXCEPT ![cp3] = Execute(h3[cp3], 1)]
                                ELSE h3
                     /\ pc' = "check"
    /\ UNCHANGED <<history, call,
                   input, policy, time_quantum, processes, process, idx, max_time,
                   result>>

\* "Check if all processes are complete": finalize and break, or go on.
SRTF_Check ==
    /\ pc = "check" /\ policy = SRTF
    /\ IF /\ remaining_processes = <<>> /\ ready_queue = <<>>
          /\ (current_process = 0 \/ is_complete(heap[current_process]))
       THEN /\ IF current_process # 0 /\ is_complete(heap[current_process])
               THEN /\ heap' = [heap EXCEPT ![current_process] =
                                   Finalized(heap[current_process], current_time + 1)]
                    /\ completed_processes' =
                           Append(completed_processes, current_process)
               ELSE UNCHANGED <<heap, completed_processes>>
            /\ pc' = "break"
            /\ idx' = idx
       ELSE /\ idx' = idx + 1
            /\ pc' = "loop"
            /\ UNCHANGED <<heap, completed_processes>>
    /\ UNCHANGED <<history, call,
                   input, policy, time_quantum, processes, current_time, gantt_chart,
                   ready_queue, remaining_processes, process, current_process,
                   max_time, result>>

\* The loop was left (break, or range(max_time + 1) exhausted): return.
SRTF_Return ==
    /\ policy = SRTF
    /\ IF pc = "loop" THEN idx > max_time ELSE pc = "break"
    /\ result' = get_results(heap, completed_processes, gantt_chart)
    /\ history' = Detached(history, gantt_chart)
    /\ pc' = "done"
    /\ UNCHANGED <<call,
                   heap, input, policy, time_quantum, processes, current_time,
                   gantt_chart, completed_processes, ready_queue, remaining_processes,
                   process, current_process, idx, max_time>>

Next ==
    \/ Construct
    \/ FCFS_Start \/ FCFS_Idle \/ FCFS_Dispatch \/ FCFS_Complete \/ FCFS_Return
    \/ SJF_Start \/ SJF_Idle \/ SJF_Dispatch \/ SJF_Complete \/ SJF_Return
    \/ PRIO_Start \/ PRIO_Idle \/ PRIO_Dispatch \/ PRIO_Complete \/ PRIO_Return
    \/ RR_Start \/ RR_Idle \/ RR_Dispatch \/ RR_After \/ RR_Return
    \/ SRTF_Start \/ SRTF_Tick \/ SRTF_Check \/ SRTF_Return

Spec == Init /\ [][Next]_vars

\* ------------------------------------------------ tests.py: test_srtf input
\* P1(arrival 0, burst 8), P2(1, 4), P3(2, 2), P4(3, 1), listed in any order.
SRTFExample ==
    <<NewProcess(1, 0, 8, 0), NewProcess(2, 1, 4, 0),
      NewProcess(3, 2, 2, 0), NewProcess(4, 3, 1, 0)>>

Perms(n) == {f \in [1..n -> 1..n] : \A i, j \in 1..n : f[i] = f[j] => i = j}

InitSRTFExample ==
    /\ policy = SRTF
    /\ time_quantum = 2
    /\ \E order \in Perms(Len(SRTFExample)) :
         /\ heap = [r \in 1..Len(SRTFExample) |-> SRTFExample[order[r]]]
         /\ input = [r \in 1..Len(SRTFExample) |-> r]
    /\ NoScheduler

NextSRTF == Construct \/ SRTF_Start \/ SRTF_Tick \/ SRTF_Check \/ SRTF_Return

SpecSRTFExample == InitSRTFExample /\ [][NextSRTF]_vars

\* ------------------------- tests.py: test_fcfs and test_round_robin inputs
\* test_fcfs: P1(arrival 0, burst 4), P2(1, 3), P3(2, 2).
FCFSExample ==
    <<NewProcess(1, 0, 4, 0), NewProcess(2, 1, 3, 0), NewProcess(3, 2, 2, 0)>>

\* test_round_robin: P1(0, 5), P2(1, 3), P3(2, 1), time_quantum = 2.
RRExample ==
    <<NewProcess(1, 0, 5, 0), NewProcess(2, 1, 3, 0), NewProcess(3, 2, 1, 0)>>

\* Either test's scheduler over its own input, the list in any order.
InitTests ==
    /\ policy \in {FCFS, RR}
    /\ time_quantum = 2
    /\ LET example == IF policy = FCFS THEN FCFSExample ELSE RRExample
       IN \E order \in Perms(Len(example)) :
            /\ heap = [r \in 1..Len(example) |-> example[order[r]]]
            /\ input = [r \in 1..Len(example) |-> r]
    /\ NoScheduler

\* In both inputs a process is ready whenever the CPU falls free, so the idle
\* branches (lines 60-62 and 230-236) are never taken and are not listed.
NextTests ==
    \/ Construct
    \/ FCFS_Start \/ FCFS_Dispatch \/ FCFS_Complete \/ FCFS_Return
    \/ RR_Start \/ RR_Dispatch \/ RR_After \/ RR_Return

SpecTests == InitTests /\ [][NextTests]_vars

\* ------------------------------------------ callers that do more than one run
\* examples.py and simulator.py build one list and give it to several schedulers
\* in turn; a scheduler's public methods can be called before and after schedule.
InitCaller ==
    /\ policy \in Policies
    /\ time_quantum \in (IF policy = RR THEN 1..MaxQuantum ELSE {2})
    /\ \E n \in 1..CallerProcs :
         \E pid \in ListOrders(n), at \in [1..n -> 0..CallerArrival],
            bt \in [1..n -> 1..CallerBurst],
            pr \in [1..n -> (IF n = 1 THEN {1} ELSE 1..MaxPriority)] :
           /\ heap = [r \in 1..n |-> NewProcess(pid[r], at[r], bt[r], pr[r])]
           /\ input = [r \in 1..n |-> r]
    /\ NoScheduler

\* The run is over; the caller keeps its result, drops the scheduler and builds
\* the next one from the same list (CPUScheduler.__init__ again).  The last of
\* MaxRuns runs repeats the first run's policy and quantum.
NewScheduler ==
    /\ pc = "done" /\ Len(history) < MaxRuns - 1
    /\ history' = Append(Detached(history, gantt_chart),
                         [policy |-> policy, time_quantum |-> time_quantum,
                          result |-> result, reused |-> FALSE,
                          gantt |-> [live |-> FALSE, value |-> gantt_chart]])
    /\ \E pol \in Policies, q \in 1..MaxQuantum :
         /\ pol # RR => q = 2
         /\ Len(history) = MaxRuns - 2 =>
               pol = history[1].policy /\ q = history[1].time_quantum
         /\ policy' = pol
         /\ time_quantum' = q
    /\ LET kept == SubSeq(heap, 1, Len(input))
       IN /\ heap' = CopyHeap(input, kept)
          /\ processes' = CopyRefs(input, kept)
    /\ current_time' = 0
    /\ gantt_chart' = <<>>
    /\ completed_processes' = <<>>
    /\ ready_queue' = <<>>
    /\ remaining_processes' = <<>>
    /\ process' = 0
    /\ current_process' = 0
    /\ idx' = 0
    /\ max_time' = 0
    /\ result' = NoResult
    /\ pc' = "constructed"
    /\ UNCHANGED <<input, call>>

SpecReplay == InitCaller /\ [][Next \/ NewScheduler]_vars

\* The run is over; the caller keeps its result and calls schedule() again on
\* the same scheduler object: processes, current_time, gantt_chart and
\* completed_processes are as the first call left them.
ScheduleAgain ==
    /\ pc = "done" /\ Len(history) < MaxRuns - 1
    /\ history' = Append(history,
                         [policy |-> policy, time_quantum |-> time_quantum,
                          result |-> result, reused |-> TRUE,
                          gantt |-> [live |-> TRUE, value |-> <<>>]])
    /\ ready_queue' = <<>>
    /\ remaining_processes' = <<>>
    /\ process' = 0
    /\ current_process' = 0
    /\ idx' = 0
    /\ max_time' = 0
    /\ result' = NoResult
    /\ pc' = "constructed"
    /\ UNCHANGED <<heap, input, policy, time_quantum, processes, current_time,
                   gantt_chart, completed_processes, call>>

SpecAgain == InitCaller /\ [][Next \/ ScheduleAgain]_vars

\* The caller's list holds the records in the order in which they were entered
\* (create_custom_processes); here pids ascend in the first list.
InitPermute ==
    /\ policy \in Policies
    /\ time_quantum \in (IF policy = RR THEN 1..MaxQuantum ELSE {2})
    /\ \E n \in 2..PermProcs :
         \E at \in [1..n -> 0..PermArrival], bt \in [1..n -> 1..PermBurst],
            pr \in [1..n -> (IF policy = PRIORITY THEN 1..MaxPriority ELSE {0})] :
           /\ heap = [r \in 1..n |-> NewProcess(r, at[r], bt[r], pr[r])]
           /\ input = [r \in 1..n |-> r]
    /\ NoScheduler

\* The run is over; the caller keeps its result, lists the same records in
\* another order and gives that list to a new scheduler of the same policy.
Permute ==
    /\ pc = "done" /\ history = <<>>
    /\ history' = <<[policy |-> policy, time_quantum |-> time_quantum,
                     result |-> result, reused |-> FALSE,
                     gantt |-> [live |-> FALSE, value |-> gantt_chart]]>>
    /\ \E order \in Perms(Len(input)) :
         /\ order # input
         /\ input' = order
         /\ LET kept == SubSeq(heap, 1, Len(input))
            IN /\ heap' = CopyHeap(order, kept)
               /\ processes' = CopyRefs(order, kept)
    /\ current_time' = 0
    /\ gantt_chart' = <<>>
    /\ completed_processes' = <<>>
    /\ ready_queue' = <<>>
    /\ remaining_processes' = <<>>
    /\ process' = 0
    /\ current_process' = 0
    /\ idx' = 0
    /\ max_time' = 0
    /\ result' = NoResult
    /\ pc' = "constructed"
    /\ UNCHANGED <<policy, time_quantum, call>>

SpecPermute == InitPermute /\ [][Next \/ Permute]_vars

\* The caller calls calculate_metrics() on a scheduler that is not running.
CalculateMetrics ==
    /\ pc \in {"constructed", "done"}
    /\ call' = <<[method |-> "calculate_metrics",
                  value |-> calculate_metrics(heap, completed_processes)]>>
    /\ UNCHANGED <<heap, input, policy, time_quantum, pc, processes, current_time,
                   gantt_chart, completed_processes, ready_queue, remaining_processes,
                   process, current_process, idx, max_time, result, history>>

SpecMetricsCall == InitCaller /\ [][Next \/ CalculateMetrics]_vars

\* ------------------------------------------------ Process used on its own
\* One Process record, and a caller that assigns its state the way the
\* schedulers do (READY on admission, RUNNING on dispatch, while work is left)
\* and calls execute with any time slice.
InitProcess ==
    /\ \E at \in 0..MaxArrival, bt \in 1..MaxBurst :
         heap = <<NewProcess(1, at, bt, 0)>>
    /\ input = <<1>>
    /\ policy = FCFS
    /\ time_quantum = 2
    /\ NoScheduler

SetState ==
    /\ pc \in {"caller", "executed"}
    /\ ~is_complete(heap[1])
    /\ \E st \in {StateREADY, StateRUNNING} : heap' = [heap EXCEPT ![1].state = st]
    /\ pc' = "caller"
    /\ UNCHANGED <<input, policy, time_quantum, processes, current_time,
                   gantt_chart, completed_processes, ready_queue, remaining_processes,
                   process, current_process, idx, max_time, result, history, call>>

CallExecute ==
    /\ pc \in {"caller", "executed"}
    /\ \E time_slice \in 0..(MaxBurst + 1) :
         /\ heap' = [heap EXCEPT ![1] = Execute(heap[1], time_slice)]
         /\ call' = <<[method |-> "execute", time_slice |-> time_slice,
                       value |-> Executed(heap[1], time_slice)]>>
    /\ pc' = "executed"
    /\ UNCHANGED <<input, policy, time_quantum, processes, current_time,
                   gantt_chart, completed_processes, ready_queue, remaining_processes,
                   process, current_process, idx, max_time, result, history>>

SpecProcess == InitProcess /\ [][SetState \/ CallExecute]_vars

\* ================================================================ properties
Done == pc = "done"

\* The scheduler's working copies, and the caller's records.
Working == {heap[processes[i]] : i \in DOMAIN processes}
Originals == {heap[input[i]] : i \in DOMAIN input}

MinArrival == CHOOSE a \in {p.arrival_time : p \in Originals} :
                  \A p \in Originals : a <= p.arrival_time

MaxCompletion(stats) ==
    CHOOSE c \in {stats[i].completion_time : i \in DOMAIN stats} :
        \A i \in DOMAIN stats : stats[i].completion_time <= c

\* g tiles [a, b): starts at a, ends at b, contiguous, every interval non-empty.
Tiles(g, a, b) ==
    /\ g # <<>>
    /\ g[1][1] = a
    /\ g[Len(g)][2] = b
    /\ \A i \in 1..(Len(g) - 1) : g[i][2] = g[i + 1][1]
    /\ \A i \in DOMAIN g : g[i][1] < g[i][2]

\* C1 (as stated): the returned Gantt sequence tiles
\* [min(arrival_time), max(completion_time)).
C1_TilesFromFirstArrival ==
    Done => Tiles(result.gantt, MinArrival, MaxCompletion(result.stats))

\* C1 (amended): the returned Gantt sequence tiles [0, max(completion_time))
\* without gap or overlap; when no process arrives at time 0 its first interval
\* is the IDLE interval [0, min(arrival_time)).
C1_TilesFromZero ==
    Done =>
      /\ Tiles(result.gantt, 0, MaxCompletion(result.stats))
      /\ MinArrival > 0 => result.gantt[1] = <<0, MinArrival, <<"IDLE", 0>>>>

C1_Witness ==
    /\ Done /\ MinArrival > 0 /\ Len(result.gantt) >= 4
    /\ \E i \in DOMAIN result.gantt : i > 1 /\ i < Len(result.gantt)
                                      /\ result.gantt[i][2] - result.gantt[i][1] = 1

\* C2: no step of constructing a scheduler or of schedule() changes any field of
\* the caller's original records, nor the caller's list.
C2_OriginalsUnchanged ==
    [][/\ input' = input
       /\ \A i \in DOMAIN input : heap'[input[i]] = heap[input[i]]]_vars

C2_Witness ==
    /\ Done
    /\ \A p \in Working : p.state = "TERMINATED" /\ p.remaining_time = 0
    /\ \A p \in Originals :
         /\ p.state = "NEW" /\ p.remaining_time = p.burst_time
         /\ p.start_time = -1 /\ p.response_time = -1
         /\ p.completion_time = 0 /\ p.turnaround_time = 0 /\ p.waiting_time = 0
    /\ Cardinality(Originals) = 3

\* C3: every process of the returned statistics has
\* turnaround_time = waiting_time + burst_time and
\* completion_time = arrival_time + turnaround_time.
C3_TurnaroundIdentities ==
    Done =>
      \A i \in DOMAIN result.stats :
        LET st == result.stats[i] IN
          /\ st.turnaround_time = st.waiting_time + st.burst_time
          /\ st.completion_time = st.arrival_time + st.turnaround_time

C3_Witness ==
    /\ Done /\ Len(result.stats) = 3
    /\ \E i \in DOMAIN result.stats :
         /\ result.stats[i].waiting_time > 0
         /\ result.stats[i].arrival_time > 0
         /\ result.stats[i].response_time < result.stats[i].waiting_time

\* C4: every process of the returned statistics has waiting_time >= 0 and
\* response_time >= 0.
C4_NonNegativeTimes ==
    Done =>
      \A i \in DOMAIN result.stats :
        result.stats[i].waiting_time >= 0 /\ result.stats[i].response_time >= 0

C4_Witness ==
    /\ Done /\ Len(result.stats) = 3
    /\ \E i \in DOMAIN result.stats :
         result.stats[i].waiting_time = 0 /\ result.stats[i].response_time = 0
                                          /\ result.stats[i].arrival_time > 0
    /\ \E i \in DOMAIN result.stats : result.stats[i].response_time > 0

\* The indices of the Gantt intervals of process pid.
IntervalsOf(g, pid) == {i \in DOMAIN g : g[i][3] = <<"P", pid>>}

\* C5: under SJF and Priority a dispatched process keeps the CPU until it
\* completes: while it runs its interval is the last one of the chart, and
\* every process has exactly one interval, [start_time, completion_time), of
\* length burst_time (none before it is dispatched).
C5_NonPreemptive ==
    policy \in {"SJF", "PRIORITY"} =>
      /\ pc = "run" =>
           LET p == heap[process] IN
             /\ p.state = "RUNNING"
             /\ gantt_chart[Len(gantt_chart)]
                  = <<p.start_time, p.start_time + p.burst_time, <<"P", p.pid>>>>
             /\ current_time = p.start_time + p.burst_time
             /\ IntervalsOf(gantt_chart, p.pid) = {Len(gantt_chart)}
      /\ \A p \in Working :
           /\ p.state = "TERMINATED" =>
                \E i \in DOMAIN gantt_chart :
                  /\ IntervalsOf(gantt_chart, p.pid) = {i}
                  /\ gantt_chart[i] = <<p.start_time, p.completion_time, <<"P", p.pid>>>>
                  /\ p.completion_time - p.start_time = p.burst_time
           /\ p.state \in {"NEW", "READY"} => IntervalsOf(gantt_chart, p.pid) = {}

\* A shorter job arrived while a longer one was running, and the run is over.
C5_Witness ==
    /\ Done /\ policy = "SJF"
    /\ \E p, q \in Working :
         /\ q.burst_time < p.burst_time
         /\ p.start_time < q.arrival_time /\ q.arrival_time < p.completion_time
         /\ q.start_time >= p.completion_time

\* (arrival_time, pid) order.
ArrivesBefore(p, q) ==
    \/ p.arrival_time < q.arrival_time
    \/ p.arrival_time = q.arrival_time /\ p.pid < q.pid

\* C6: FCFS dispatches and completes the processes in ascending
\* (arrival_time, pid) order, whatever the order of the input list.
C6_FCFSOrder ==
    policy = "FCFS" /\ pc \in {"loop", "run", "done"} =>
      /\ \A p, q \in Working :
           ArrivesBefore(p, q) =>
             /\ q.start_time # -1 => p.start_time # -1 /\ p.start_time < q.start_time
             /\ q.state = "TERMINATED" =>
                  p.state = "TERMINATED" /\ p.completion_time < q.completion_time
      /\ Done =>
           \A i, j \in DOMAIN result.stats :
             i < j => ArrivesBefore(result.stats[i], result.stats[j])

\* Two processes with the same arrival time, listed with the higher pid first.
C6_Witness ==
    /\ Done /\ policy = "FCFS" /\ Len(result.stats) = 3
    /\ \E i, j \in DOMAIN input :
         /\ i < j
         /\ heap[input[i]].arrival_time = heap[input[j]].arrival_time
         /\ heap[input[i]].pid > heap[input[j]].pid

\* (burst_time, arrival_time, pid) order.
ShorterJob(p, q) ==
    \/ p.burst_time < q.burst_time
    \/ p.burst_time = q.burst_time /\ ArrivesBefore(p, q)

\* C7: the process SJF dispatches has arrived, and it precedes in
\* (burst_time, arrival_time, pid) order every other process that has arrived
\* by the dispatch time and has not yet run.
C7_SJFSelection ==
    policy = "SJF" /\ pc = "run" =>
      LET p == heap[process] IN
        /\ p.arrival_time <= p.start_time
        /\ \A q \in Working :
             q.pid # p.pid /\ q.arrival_time <= p.start_time /\ q.state # "TERMINATED"
               => ShorterJob(p, q)

\* The shortest arrived job is chosen over one that precedes it in arrival
\* order, while a still shorter job has not arrived yet.
C7_Witness ==
    /\ policy = "SJF" /\ pc = "run"
    /\ \E q, u \in Working :
         /\ q.state = "READY" /\ ArrivesBefore(q, heap[process])
         /\ q.burst_time > heap[process].burst_time
         /\ u.arrival_time > heap[process].start_time
         /\ u.burst_time < heap[process].burst_time

\* (priority, arrival_time, pid) order.
HigherPriority(p, q) ==
    \/ p.priority < q.priority
    \/ p.priority = q.priority /\ ArrivesBefore(p, q)

\* C8: the process Priority scheduling dispatches has arrived, and it precedes
\* in (priority, arrival_time, pid) order every other process that has arrived
\* by the dispatch time and has not yet run.
C8_PrioritySelection ==
    policy = "PRIORITY" /\ pc = "run" =>
      LET p == heap[process] IN
        /\ p.arrival_time <= p.start_time
        /\ \A q \in Working :
             q.pid # p.pid /\ q.arrival_time <= p.start_time /\ q.state # "TERMINATED"
               => HigherPriority(p, q)

\* The lower priority number is chosen over a process that precedes it in
\* arrival order, and over one with the same priority that follows it.
C8_Witness ==
    /\ policy = "PRIORITY" /\ pc = "run"
    /\ \E q, u \in Working :
         /\ q.state = "READY" /\ ArrivesBefore(q, heap[process])
         /\ q.priority > heap[process].priority
         /\ u.state = "READY" /\ u.priority = heap[process].priority
         /\ ArrivesBefore(heap[process], u)

\* The label of the Gantt interval that covers the time unit [t, t + 1).
Covers(g, i, t) == g[i][1] <= t /\ t < g[i][2]

RunsAt(g, t, pid) == \E i \in DOMAIN g : Covers(g, i, t) /\ g[i][3] = <<"P", pid>>

\* C9 (as stated): in the SRTF example the process running at time 3 is P4.
C9_P4RunsAt3 == Done => RunsAt(result.gantt, 3, 4)

\* C9 (amended): in the SRTF example the process running at time 3 is P3
\* (P4, whose remaining time is not strictly smaller, waits and runs at time 4).
C9_P3RunsAt3 ==
    /\ pc = "check" /\ current_time = 3 =>
         current_process # 0 /\ heap[current_process].pid = 3
    /\ Done => RunsAt(result.gantt, 3, 3) /\ RunsAt(result.gantt, 4, 4)

\* Time unit 3 has been executed by P3 while P4 is ready with the same
\* remaining time P3 had.
C9_Witness ==
    /\ pc = "check" /\ current_time = 3
    /\ current_process # 0 /\ heap[current_process].pid = 3
    /\ heap[current_process].remaining_time = 0
    /\ \E i \in DOMAIN ready_queue :
         heap[ready_queue[i]].pid = 4 /\ heap[ready_queue[i]].remaining_time = 1

\* C10 (as stated): in the SRTF example P1's completion_time is 16.
C10_P1CompletesAt16 ==
    Done => \E i \in DOMAIN result.stats :
              result.stats[i].pid = 1 /\ result.stats[i].completion_time = 16

\* C10 (amended): in the SRTF example P1's completion_time is 15, the sum of
\* all burst times.
C10_P1CompletesAt15 ==
    Done => \E i \in DOMAIN result.stats :
              result.stats[i].pid = 1 /\ result.stats[i].completion_time = 15

\* P1 was preempted at time 1 and is the last process to complete.
C10_Witness ==
    /\ Done /\ Len(result.stats) = 4 /\ result.stats[4].pid = 1
    /\ result.stats[4].waiting_time = 7 /\ result.stats[4].response_time = 0
    /\ Cardinality(IntervalsOf(result.gantt, 1)) = 2

\* C11: Round-Robin with time_quantum 2 on P1(0,5), P2(1,3), P3(2,1): the Gantt
\* sequence begins with exactly (0,2,P1) and then (2,4,P2), so P3, which arrives
\* during P1's first quantum after P2, does not run ahead of P2.
C11_RRBeginsP1ThenP2 ==
    (Done /\ policy = "RR") =>
        /\ Len(result.gantt) >= 2
        /\ result.gantt[1] = <<0, 2, <<"P", 1>>>>
        /\ result.gantt[2] = <<2, 4, <<"P", 2>>>>
        /\ \A i \in DOMAIN result.gantt :
              result.gantt[i][3] = <<"P", 3>> =>
                \E j \in 1..(i - 1) : result.gantt[j][3] = <<"P", 2>>

\* The run has finished on the list given as P3, P2, P1.
C11_Witness ==
    /\ Done /\ policy = "RR"
    /\ [i \in DOMAIN input |-> heap[input[i]].pid] = <<3, 2, 1>>
    /\ \E i \in DOMAIN result.gantt : result.gantt[i][3] = <<"P", 3>>

\* C12: FCFS on P1(0,4), P2(1,3), P3(2,2): the statistics come in the order P1,
\* P2, P3 with completion times 4, 7, 9, turnaround times 4, 6, 7 and waiting
\* times 0, 3, 5.
C12_FCFSExampleStats ==
    (Done /\ policy = "FCFS") =>
        /\ [i \in DOMAIN result.stats |-> result.stats[i].pid] = <<1, 2, 3>>
        /\ [i \in DOMAIN result.stats |-> result.stats[i].completion_time] = <<4, 7, 9>>
        /\ [i \in DOMAIN result.stats |-> result.stats[i].turnaround_time] = <<4, 6, 7>>
        /\ [i \in DOMAIN result.stats |-> result.stats[i].waiting_time] = <<0, 3, 5>>

\* The run has finished on the list given as P2, P3, P1.
C12_Witness ==
    /\ Done /\ policy = "FCFS"
    /\ [i \in DOMAIN input |-> heap[input[i]].pid] = <<2, 3, 1>>
    /\ Len(result.stats) = 3

\* C13: in the Gantt sequence returned by any policy, Round-Robin and SRTF in
\* particular, no two adjacent intervals carry the same label: consecutive runs
\* of one process, and consecutive idle periods, are merged into one interval.
C13_NoAdjacentSameLabel ==
    Done => \A i \in 1..(Len(result.gantt) - 1) :
                result.gantt[i][3] # result.gantt[i + 1][3]

\* C14: every Gantt interval (start, end, label), IDLE ones included, has
\* start < end, and each interval's end is the next interval's start; this holds
\* of the chart while it is built and of the sequence schedule returns.
C14_ContiguousIntervals ==
    \A g \in {gantt_chart, result.gantt} :
        \A i \in DOMAIN g :
            /\ g[i][1] < g[i][2]
            /\ i < Len(g) => g[i][2] = g[i + 1][1]

\* A returned sequence with an IDLE interval between two runs.
C14_Witness ==
    /\ Done
    /\ \E i \in 2..(Len(result.gantt) - 1) :
          /\ result.gantt[i][3] = <<"IDLE", 0>>
          /\ result.gantt[i - 1][3] # <<"IDLE", 0>>

\* Every input pid has exactly one statistics record and no working copy has
\* time left to run.
AllComplete ==
    /\ Len(result.stats) = Len(input)
    /\ \A p \in Originals :
          Cardinality({i \in DOMAIN result.stats : result.stats[i].pid = p.pid}) = 1
    /\ \A p \in Working : p.remaining_time = 0

\* The latest time any schedule of the input can need: every burst run after
\* the last arrival.
Horizon == SumBurst(input, heap) + MaxArrivalTime(input, heap)

\* A measure of how far the call has come: the stage of the call, then the clock,
\* the loop counter and the position inside one loop iteration.
Stage == CASE pc = "caller" -> 0 [] pc = "constructed" -> 1 [] pc = "done" -> 3
           [] OTHER -> 2
StageSize == 5 * Horizon + 3 * Len(input) + 6
Progress ==
    Stage * StageSize + 2 * current_time + 3 * idx
    + (CASE pc = "run" -> 0 - 1 [] pc = "check" -> 1 [] pc = "break" -> 2 [] OTHER -> 0)

\* C15: for every policy and valid input schedule terminates, and when it has
\* returned the statistics hold each input pid exactly once and every working
\* copy has remaining_time 0.  Termination: every step of the call raises
\* Progress, and Progress is bounded because the clock and the loop counter are.
C15_TerminatesAllComplete ==
    [][/\ Progress' > Progress
       /\ current_time' <= Horizon /\ idx' <= Horizon + Len(input) + 1
       /\ Done' => AllComplete']_vars

\* A run of three processes has returned after the CPU idled first.
C15_Witness ==
    /\ Done /\ Len(input) = 3 /\ Len(result.stats) = 3
    /\ result.gantt[1][3] = <<"IDLE", 0>>

\* C17: the statistics list is in completion order: completion_time strictly
\* increases along it; under FCFS, SJF and Priority this is also the dispatch
\* order (start time = arrival_time + response_time strictly increases).
C17_CompletionOrder ==
    Done => \A i, j \in DOMAIN result.stats :
                i < j =>
                  /\ result.stats[i].completion_time < result.stats[j].completion_time
                  /\ policy \in {"FCFS", "SJF", "PRIORITY"} =>
                        result.stats[i].arrival_time + result.stats[i].response_time
                          < result.stats[j].arrival_time + result.stats[j].response_time

\* A preemptive run has returned three records whose completion order is neither
\* the pid order nor the order of first dispatch.
C17_Witness ==
    /\ Done /\ policy \in {"SRTF", "RR"} /\ Len(result.stats) = 3
    /\ result.stats[1].pid > result.stats[2].pid
    /\ result.stats[1].arrival_time + result.stats[1].response_time
         > result.stats[2].arrival_time + result.stats[2].response_time

\* The sum of one field over a statistics list.
RECURSIVE StatSum(_, _)
StatSum(stats, field) ==
    IF stats = <<>> THEN 0 ELSE Head(stats)[field] + StatSum(Tail(stats), field)

\* avg, in hundredths, is total / n rounded to two decimals: no other number of
\* hundredths is nearer to it.
IsMeanRounded(avg, total, n) ==
    LET d == 100 * total - n * avg
    IN 2 * (IF d < 0 THEN 0 - d ELSE d) <= n

\* C18: the metrics returned by schedule have total_processes equal to the
\* number of completed processes, which is the number of input processes, and
\* avg_turnaround_time, avg_waiting_time and avg_response_time equal to the
\* arithmetic means of those fields over the completed processes, rounded to
\* two decimals.
C18_Metrics ==
    Done =>
        LET n == Len(result.stats)
        IN /\ DOMAIN result.metrics = {"avg_turnaround_time", "avg_waiting_time",
                                       "avg_response_time", "total_processes"}
           /\ result.metrics.total_processes = n
           /\ n = Len(input)
           /\ IsMeanRounded(result.metrics.avg_turnaround_time,
                            StatSum(result.stats, "turnaround_time"), n)
           /\ IsMeanRounded(result.metrics.avg_waiting_time,
                            StatSum(result.stats, "waiting_time"), n)
           /\ IsMeanRounded(result.metrics.avg_response_time,
                            StatSum(result.stats, "response_time"), n)

\* Three processes whose mean turnaround is rounded up and whose mean waiting
\* time is rounded down.
C18_Witness ==
    /\ Done /\ Len(result.stats) = 3
    /\ StatSum(result.stats, "turnaround_time") % 3 = 2
    /\ StatSum(result.stats, "waiting_time") % 3 = 1
    /\ result.metrics.avg_turnaround_time % 100 = 67
    /\ result.metrics.avg_waiting_time % 100 = 33

\* C16: replay is idempotent: a scheduler of some policy built from the same
\* input list after earlier runs (of that or of any other policy) over the list
\* have finished returns the Gantt sequence, statistics and metrics that the
\* earlier run of that policy (and quantum) returned.
C16_ReplayIdempotent ==
    Done => \A k \in DOMAIN history :
                (history[k].policy = policy /\ history[k].time_quantum = time_quantum)
                  => history[k].result = result

\* Round-Robin has run, then another policy, then Round-Robin again, with a
\* process requeued on the way.
C16_Witness ==
    /\ Done /\ Len(history) = 2 /\ policy = "RR"
    /\ history[1].policy = "RR" /\ history[2].policy # "RR"
    /\ Len(result.gantt) > Len(result.stats)
    /\ Len(result.stats) = 2

\* C19: when no process has completed, calculate_metrics returns an empty
\* metrics structure (no division takes place, no error) and leaves the state
\* of the scheduler and of the processes unchanged.
C19_EmptyMetrics ==
    [][(completed_processes = <<>> /\ call' # <<>> /\ call # call')
         => /\ call'[1].method = "calculate_metrics"
            /\ DOMAIN call'[1].value = {}
            /\ UNCHANGED <<heap, processes, current_time, gantt_chart,
                           completed_processes, result>>]_vars

\* calculate_metrics has been called on a scheduler that has not run yet.
C19_Witness ==
    /\ pc = "constructed" /\ completed_processes = <<>>
    /\ call # <<>> /\ call[1].method = "calculate_metrics"

\* What execute(units) may do to a record p, giving q and returning ret.
ExecuteContract(p, q, units, ret) ==
    IF p.state # "RUNNING"
    THEN ret = 0 /\ q = p
    ELSE /\ ret = (IF units <= p.remaining_time THEN units ELSE p.remaining_time)
         /\ q.remaining_time = p.remaining_time - ret
         /\ q.remaining_time >= 0
         /\ q.state = "TERMINATED" <=> q.remaining_time = 0
         /\ q.state \in {"TERMINATED", p.state}
         /\ [q EXCEPT !.remaining_time = p.remaining_time, !.state = p.state] = p

\* C20: Process.execute(units) returns 0 and changes nothing if the state is
\* not RUNNING; otherwise it returns min(units, remaining_time), lowers
\* remaining_time by exactly that amount (never below 0), sets the state to
\* TERMINATED iff the new remaining_time is 0, and changes no other field.
C20_ExecuteContract ==
    [][pc' = "executed" =>
         /\ call'[1].method = "execute"
         /\ ExecuteContract(heap[1], heap'[1], call'[1].time_slice, call'[1].value)]_vars

\* execute was given more than was left and has terminated the process.
C20_Witness ==
    /\ pc = "executed" /\ heap[1].state = "TERMINATED"
    /\ call[1].value >= 1 /\ call[1].time_slice > call[1].value

\* C21: in every state reached while any policy schedules a valid input, each
\* working-copy process has remaining_time = 0 if and only if its state is
\* TERMINATED.
C21_ZeroIffTerminated ==
    \A p \in Working : p.remaining_time = 0 <=> p.state = "TERMINATED"

\* Mid-run: one working copy has terminated, another is running with time
\* left, a third has not been admitted yet.
C21_Witness ==
    /\ pc = "run"
    /\ \E p, q, r \in Working :
          /\ p.state = "TERMINATED" /\ p.remaining_time = 0
          /\ q.state = "RUNNING" /\ q.remaining_time > 0
          /\ r.state = "NEW"

\* The records that have been finalized: the completed working copies.
Completed == {heap[completed_processes[i]] : i \in DOMAIN completed_processes}

\* C22 as claimed: turnaround_time = waiting_time + burst_time holds of every
\* Process record in every reachable state, from construction onward.
C22_IdentityAlways ==
    \A r \in DOMAIN heap :
        heap[r].turnaround_time = heap[r].waiting_time + heap[r].burst_time

\* C22 as the code has it: the identity holds of every record from its
\* completion onward; until then turnaround_time and waiting_time are both
\* still 0 (and burst_time is positive, so the identity does not hold).
C22_IdentityOnceCompleted ==
    /\ \A p \in Completed : p.turnaround_time = p.waiting_time + p.burst_time
    /\ \A p \in (Working \cup Originals) \ Completed :
          p.turnaround_time = 0 /\ p.waiting_time = 0 /\ p.burst_time > 0

\* A preempted process has completed, with a waiting time beyond its response
\* time, while another working copy is still unfinished.
C22_Witness ==
    /\ \E p \in Completed : p.waiting_time > p.response_time
    /\ \E q \in Working \ Completed : q.remaining_time > 0 /\ q.start_time # -1

\* The two steps of one Round-Robin turn: the dispatch (lines 238-251) and what
\* follows the run (lines 253-268).
RRDispatchStep == policy = "RR" /\ pc = "loop" /\ pc' = "run"
RRAfterStep == policy = "RR" /\ pc = "run" /\ pc' = "loop"

\* The not yet queued processes that have arrived by time t.
Newcomers(t) == {r \in Range(remaining_processes) : heap[r].arrival_time <= t}

\* rq continues the queue old with exactly the processes of new, in
\* (arrival_time, pid) order, and then with the sequence last.
ExtendsQueue(rq, old, new, last) ==
    LET n == Len(old)
        k == Cardinality(new)
    IN /\ Len(rq) = n + k + Len(last)
       /\ SubSeq(rq, 1, n) = old
       /\ {rq[i] : i \in (n + 1)..(n + k)} = new
       /\ \A i, j \in (n + 1)..(n + k) :
             i < j => ArrivesBefore(heap[rq[i]], heap[rq[j]])
       /\ SubSeq(rq, n + k + 1, n + k + Len(last)) = last

\* C23: in Round-Robin, after a dispatch ends at time t with the run process
\* unfinished, every process with arrival_time <= t that was not yet queued is
\* appended to the ready queue, in (arrival_time, pid) order, before the
\* just-run process is re-enqueued; the queue is served from its head, so each
\* such newcomer is dispatched before the incumbent's next turn; a process that
\* has finished its burst is not re-enqueued.
C23_NewcomersBeforeIncumbent ==
    [][/\ RRAfterStep =>
            /\ ExtendsQueue(ready_queue', ready_queue, Newcomers(current_time),
                            IF heap[process].remaining_time > 0
                            THEN <<process>> ELSE <<>>)
            /\ Range(remaining_processes')
                 = Range(remaining_processes) \ Newcomers(current_time)
       /\ (RRDispatchStep /\ ready_queue # <<>>) =>
            /\ process' = Head(ready_queue)
            /\ ExtendsQueue(ready_queue', Tail(ready_queue),
                            Newcomers(current_time), <<>>)]_vars

\* The run of an unfinished process has just ended; a process that arrived
\* during it stands in the queue between an older one and the incumbent.
C23_Witness ==
    /\ policy = "RR" /\ pc = "loop" /\ Len(ready_queue) = 3
    /\ ready_queue[3] = process /\ heap[process].remaining_time > 0
    /\ heap[ready_queue[2]].start_time = -1
    /\ heap[ready_queue[2]].arrival_time > gantt_chart[Len(gantt_chart)][1]
    /\ heap[ready_queue[1]].arrival_time <= gantt_chart[Len(gantt_chart)][1]

\* The process at the head of the queue once the arrivals by time t have joined.
HeadAfterAdmission(t) ==
    IF ready_queue # <<>> THEN Head(ready_queue)
    ELSE CHOOSE r \in Newcomers(t) :
           \A q \in Newcomers(t) \ {r} : ArrivesBefore(heap[r], heap[q])

\* C24: in Round-Robin every dispatch runs the head of the ready queue for
\* exactly min(time_quantum, remaining_time) units and emits exactly one Gantt
\* interval of that length; no Gantt interval of a process is longer than
\* time_quantum.
C24_OneIntervalPerDispatch ==
    [][/\ RRDispatchStep =>
            LET r == HeadAfterAdmission(current_time)
                left == heap[r].remaining_time
                len == IF time_quantum <= left THEN time_quantum ELSE left
            IN /\ process' = r
               /\ gantt_chart' = Append(gantt_chart,
                      <<current_time, current_time + len, <<"P", heap[r].pid>>>>)
               /\ heap'[r].remaining_time = left - len
               /\ current_time' = current_time + len
       /\ RRAfterStep => gantt_chart' = gantt_chart
       /\ policy = "RR" =>
            \A i \in DOMAIN gantt_chart' :
                gantt_chart'[i][3] # <<"IDLE", 0>> =>
                  gantt_chart'[i][2] - gantt_chart'[i][1] <= time_quantum]_vars

\* A process is in its second turn, which is shorter than the quantum.
C24_Witness ==
    /\ policy = "RR" /\ pc = "run" /\ time_quantum = 2
    /\ gantt_chart[Len(gantt_chart)] =
         <<current_time - 1, current_time, <<"P", heap[process].pid>>>>
    /\ Cardinality(IntervalsOf(gantt_chart, heap[process].pid)) = 2

\* One iteration of the SRTF loop up to the execution of its time unit.
SRTFTickStep == policy = "SRTF" /\ pc = "loop" /\ pc' = "check"

\* C25: in SRTF a running, unfinished process is preempted at a time unit if and
\* only if some ready process (one that has just arrived included) has strictly
\* less remaining_time than it; otherwise, in particular when a ready process
\* has equal remaining_time, it keeps the CPU for that unit.
C25_PreemptIffStrictlyShorter ==
    [][(SRTFTickStep /\ current_process # 0
           /\ heap[current_process].remaining_time > 0) =>
         LET cp == current_process
             ready == Range(ready_queue) \cup Newcomers(idx)
             shorter == \E r \in ready :
                          heap[r].remaining_time < heap[cp].remaining_time
         IN IF shorter
            THEN /\ current_process' # cp
                 /\ cp \in Range(ready_queue')
                 /\ heap'[cp].state = "READY"
                 /\ heap'[cp].remaining_time = heap[cp].remaining_time
            ELSE /\ current_process' = cp
                 /\ heap'[cp].remaining_time = heap[cp].remaining_time - 1
                 /\ gantt_chart'[Len(gantt_chart')][2] = idx + 1
                 /\ gantt_chart'[Len(gantt_chart')][3] = <<"P", heap[cp].pid>>]_vars

\* The running process has kept the CPU for the unit in which a process with
\* the same remaining_time arrived.
C25_Witness ==
    /\ policy = "SRTF" /\ pc = "check" /\ current_process # 0
    /\ heap[current_process].start_time < current_time
    /\ \E r \in Range(ready_queue) :
          /\ heap[r].arrival_time = current_time
          /\ heap[r].remaining_time = heap[current_process].remaining_time + 1

\* C26: in SRTF and Round-Robin, start_time and response_time of a process are
\* assigned at its first dispatch (start_time = the time of that dispatch,
\* response_time = start_time - arrival_time) and no later step, a re-dispatch
\* included, changes them; a process that holds the CPU has them assigned.
C26_FirstDispatchOnly ==
    [][(policy = "SRTF" \/ policy = "RR") =>
         \A r \in Range(processes) :
             /\ heap[r].start_time # -1 =>
                   /\ heap'[r].start_time = heap[r].start_time
                   /\ heap'[r].response_time = heap[r].response_time
             /\ (heap[r].start_time = -1 /\ heap'[r].start_time # -1) =>
                   /\ gantt_chart'[Len(gantt_chart')] =
                        <<heap'[r].start_time, gantt_chart'[Len(gantt_chart')][2],
                          <<"P", heap[r].pid>>>>
                   /\ Len(gantt_chart') = Len(gantt_chart) + 1
                   /\ heap'[r].response_time = heap'[r].start_time - heap[r].arrival_time
             /\ heap'[r].state = "RUNNING" => heap'[r].start_time # -1]_vars

\* A process is running again, later than its first dispatch, after another
\* process has run in between.
C26_Witness ==
    /\ policy \in {"SRTF", "RR"} /\ pc \in {"run", "check"}
    /\ \E p \in Working :
          /\ p.state = "RUNNING"
          /\ gantt_chart[Len(gantt_chart)][3] = <<"P", p.pid>>
          /\ p.start_time < gantt_chart[Len(gantt_chart)][1]
          /\ p.response_time = p.start_time - p.arrival_time

\* C27: the SRTF time bound, the sum of all burst_time plus the latest
\* arrival_time, is safe: the loop variable never passes it, the loop is always
\* left through its early-exit check, and at that exit nothing is unscheduled
\* or ready and every process is finalized at a time within the bound.
C27_SRTFBoundSafe ==
    [][(policy = "SRTF") =>
         /\ idx' <= Horizon
         /\ pc' = "done" => pc = "break"
         /\ pc' = "break" =>
               /\ remaining_processes' = <<>> /\ ready_queue' = <<>>
               /\ Range(completed_processes') = Range(processes)
               /\ \A r \in Range(processes) :
                     /\ heap'[r].remaining_time = 0
                     /\ heap'[r].completion_time >= 1
                     /\ heap'[r].completion_time <= Horizon]_vars

\* The loop has been left with the last of three processes finalized exactly at
\* the bound.
C27_Witness ==
    /\ policy = "SRTF" /\ pc = "break" /\ Len(input) = 3
    /\ \E p \in Working : p.completion_time = Horizon

\* C28: in every policy the simulated clock current_time starts at 0 and never
\* decreases from one scheduling step to the next during a schedule call.
C28_ClockMonotone ==
    [][/\ pc' = "constructed" => current_time' = 0
       /\ current_time' >= current_time]_vars

\* The clock has moved on by an idle jump and by a run.
C28_Witness ==
    /\ pc = "run" /\ Len(completed_processes) >= 1
    /\ \E i \in DOMAIN gantt_chart :
          gantt_chart[i][3] = <<"IDLE", 0>> /\ gantt_chart[i][1] > 0
    /\ current_time >= 4

\* What the Gantt list of an earlier result holds now.
GanttNow(e) == IF e.gantt.live THEN gantt_chart ELSE e.gantt.value

\* Time units the chart g gives to process pid.
RECURSIVE RunTotal(_, _)
RunTotal(g, pid) ==
    IF g = <<>> THEN 0
    ELSE (IF Head(g)[3] = <<"P", pid>> THEN Head(g)[2] - Head(g)[1] ELSE 0)
         + RunTotal(Tail(g), pid)

\* C29 as claimed: a result is produced fresh by each schedule call and never
\* mutated afterward.  The Gantt sequence an earlier schedule call returned
\* still holds what it held when it was returned, also after a second schedule
\* call on the same scheduler object; and the result of that second call
\* carries nothing over from the first: one completed entry per process, no
\* completion later than any schedule of the input needs, and for every
\* process exactly burst_time units of intervals.
C29_ResultFreshNeverMutated ==
    /\ \A k \in DOMAIN history : GanttNow(history[k]) = history[k].result.gantt
    /\ (Done /\ history # <<>>) =>
          /\ Len(result.stats) = Len(input)
          /\ MaxCompletion(result.stats) <= Horizon
          /\ \A p \in Originals : RunTotal(result.gantt, p.pid) = p.burst_time

\* C30: in every policy the CPU idles only when no work is available: an IDLE
\* interval covers a time unit only if every process that has arrived by then
\* is already complete and some process has not yet arrived; and in FCFS, SJF,
\* Round-Robin and Priority each IDLE interval ends exactly at the next arrival
\* time.
C30_IdleOnlyWithoutWork ==
    Done =>
      \A i \in DOMAIN result.gantt :
        result.gantt[i][3] = <<"IDLE", 0>> =>
          LET start == result.gantt[i][1]
              end == result.gantt[i][2]
              stats == result.stats
          IN /\ \A t \in start..(end - 1) :
                  /\ \A k \in DOMAIN stats :
                        stats[k].arrival_time <= t => stats[k].completion_time <= t
                  /\ \E k \in DOMAIN stats : stats[k].arrival_time > t
             /\ policy # "SRTF" =>
                  /\ \E k \in DOMAIN stats : stats[k].arrival_time = end
                  /\ \A k \in DOMAIN stats :
                        stats[k].arrival_time > start => stats[k].arrival_time >= end

\* The CPU idled between the completion of one process and the arrival of the
\* next, under a policy that jumps to the arrival.
C30_Witness ==
    /\ Done /\ policy # "SRTF" /\ Len(result.stats) >= 2
    /\ \E i \in DOMAIN result.gantt :
          /\ i > 1
          /\ result.gantt[i][3] = <<"IDLE", 0>>
          /\ result.gantt[i][1] = result.stats[1].completion_time
          /\ result.gantt[i][2] = result.stats[2].arrival_time

\* C31: in SRTF, at every time unit in which a process executes, that process
\* has, before executing, a remaining_time less than or equal to that of every
\* other process that has arrived and is not complete (and it executes one
\* unit of it).
C31_ShortestRemainingRuns ==
    [][(SRTFTickStep /\ current_process' # 0) =>
         LET cp == current_process'
         IN /\ heap[cp].remaining_time >= 1
            /\ heap'[cp].remaining_time = heap[cp].remaining_time - 1
            /\ gantt_chart'[Len(gantt_chart')][3] = <<"P", heap[cp].pid>>
            /\ \A r \in Range(processes) \ {cp} :
                  (heap[r].arrival_time <= idx /\ heap[r].remaining_time > 0) =>
                     heap[cp].remaining_time <= heap[r].remaining_time]_vars

\* A process runs in SRTF while a preempted process with more remaining_time
\* and another with as much remaining_time as it had wait in the ready queue.
C31_Witness ==
    /\ policy = "SRTF" /\ pc = "check" /\ current_process # 0
    /\ \E r \in Range(ready_queue) :
          /\ heap[r].start_time # -1
          /\ heap[r].remaining_time > heap[current_process].remaining_time + 1
    /\ \E r \in Range(ready_queue) :
          heap[r].remaining_time = heap[current_process].remaining_time + 1

\* C32: for every policy, the total length of the Gantt intervals labelled with
\* a process equals that process's burst_time, and the last of its intervals
\* ends at its completion_time.
C32_CpuTimeConserved ==
    Done =>
      \A k \in DOMAIN result.stats :
        LET st == result.stats[k]
            own == IntervalsOf(result.gantt, st.pid)
        IN /\ RunTotal(result.gantt, st.pid) = st.burst_time
           /\ own # {}
           /\ \E i \in own :
                 /\ \A j \in own : j <= i
                 /\ result.gantt[i][2] = st.completion_time

\* A preemptive policy has returned a chart in which a process runs, gives way
\* to another process, and runs again.
C32_Witness ==
    /\ Done /\ policy \in {"SRTF", "RR"}
    /\ \E k \in DOMAIN result.stats :
          \E i, j \in IntervalsOf(result.gantt, result.stats[k].pid) :
              /\ i + 1 < j
              /\ result.gantt[j][2] = result.stats[k].completion_time

\* C33: for every policy every completed process has response_time <=
\* waiting_time; for FCFS, SJF and Priority response_time = waiting_time =
\* start_time - arrival_time.
C33_ResponseAtMostWaiting ==
    \A p \in Completed :
        /\ p.response_time <= p.waiting_time
        /\ policy \in {"FCFS", "SJF", "PRIORITY"} =>
              /\ p.response_time = p.waiting_time
              /\ p.waiting_time = p.start_time - p.arrival_time

\* Under a preemptive policy a process has completed that waited before its
\* first dispatch and again after it.
C33_Witness ==
    /\ policy \in {"SRTF", "RR"}
    /\ \E p \in Completed :
          /\ 0 < p.response_time
          /\ p.response_time < p.waiting_time

\* C34: in Round-Robin no process is in the ready queue twice (nor in it while
\* it holds the CPU), and between two consecutive dispatches of the same
\* process every other process is dispatched at most once.
C34_OneTurnEach ==
    policy = "RR" =>
      /\ \A i, j \in DOMAIN ready_queue : i # j => ready_queue[i] # ready_queue[j]
      /\ pc = "run" => process \notin Range(ready_queue)
      /\ \A i, j \in DOMAIN gantt_chart :
            (/\ i < j
             /\ gantt_chart[i][3] # IDLE
             /\ gantt_chart[i][3] = gantt_chart[j][3]
             /\ \A k \in (i + 1)..(j - 1) : gantt_chart[k][3] # gantt_chart[i][3]) =>
               \A k, l \in (i + 1)..(j - 1) :
                   (k # l /\ gantt_chart[k][3] # IDLE) =>
                      gantt_chart[k][3] # gantt_chart[l][3]

\* A process is in its second turn after two other processes had one turn
\* each, and both of them wait in the queue again.
C34_Witness ==
    /\ policy = "RR" /\ pc = "run" /\ Len(ready_queue) = 2
    /\ Len(gantt_chart) >= 4
    /\ LET n == Len(gantt_chart)
       IN /\ gantt_chart[n][3] = Label(heap[process].pid)
          /\ gantt_chart[n - 3][3] = gantt_chart[n][3]
          /\ gantt_chart[n - 2][3] = Label(heap[ready_queue[1]].pid)
          /\ gantt_chart[n - 1][3] = Label(heap[ready_queue[2]].pid)

\* The working copies whose state is RUNNING.
Running == {r \in Range(processes) : heap[r].state = "RUNNING"}

\* C35: during a schedule call of any policy at most one working-copy process
\* is in state RUNNING at any time, and a process whose state is TERMINATED
\* never returns to READY or RUNNING (it stays TERMINATED).
C35_OneRunningNoReturn ==
    [][/\ Cardinality(Running') <= 1
       /\ \A r \in Range(processes) :
             heap[r].state = "TERMINATED" => heap'[r].state = "TERMINATED"]_vars

\* A process runs while another working copy is TERMINATED and a third,
\* dispatched before, is READY again.
C35_Witness ==
    /\ Cardinality(Running) = 1
    /\ \E r \in Range(processes) : heap[r].state = "TERMINATED"
    /\ \E r \in Range(processes) : heap[r].state = "READY" /\ heap[r].start_time # -1

\* C36: for every policy the result of schedule depends only on the set of
\* input processes, not on their order in the input list: a run on the same
\* records (unique pids) listed in another order returns the same Gantt
\* sequence and the same statistics list.
C36_OrderIndependent ==
    (Done /\ history # <<>>) =>
        /\ result.gantt = history[1].result.gantt
        /\ result.stats = history[1].result.stats

\* The second run has returned; its list was not in (arrival_time, pid) order
\* and held two processes that differ in pid only, the higher pid first.
C36_Witness ==
    /\ Done /\ history # <<>> /\ Len(input) = 3
    /\ \E i, j \in DOMAIN input :
          /\ i < j /\ input[i] > input[j]
          /\ heap[input[i]].arrival_time = heap[input[j]].arrival_time
          /\ heap[input[i]].burst_time = heap[input[j]].burst_time
          /\ heap[input[i]].priority = heap[input[j]].priority
    /\ \E i \in DOMAIN input : i < Len(input) /\
          heap[input[i]].arrival_time > heap[input[i + 1]].arrival_time
    /\ Len(result.gantt) > Len(input)
====
